---- MODULE Spec2Model ----
(***************************************************************************)
(* State-machine model of the Koine flashcard app (src/app.py): the        *)
(* mastery session engine, the browse navigator, the filter and the two    *)
(* small stores, driven by the buttons and widgets of the Streamlit        *)
(* script.  One script run is: sidebar, filter, ensure_selected_valid,     *)
(* then the handler of the pressed button, which ends in st.rerun(); the   *)
(* rerun executes the top of the script again.  pc = "ready" is the state  *)
(* in which the page waits for the user, pc = "rerun" the state in which   *)
(* a handler has returned and the script is about to run again.            *)
(* The presentation-only flags (revealed, auto_hide_on_next, show_media,   *)
(* audio_on, show_parsing, flashcard_mode) are not part of the model.      *)
(*                                                                         *)
(* Specifications: Spec is the session engine over one deck with distinct  *)
(* ids; SpecDecks the deck loader and the engine over several deck         *)
(* selections; SpecFilter the filter with the search box, the checkbox     *)
(* and the stars; SpecFav the writers of the two stores; SpecSave the      *)
(* save of the favourites taken step by step, the process being stopped    *)
(* and started again at any point.                                         *)
(***************************************************************************)
EXTENDS Integers, Sequences, FiniteSets, TLC

VARIABLES
    pc,                 \* "load" | "ready" | "rerun"; inside safe_write_json "open" | "dump" |
                        \* "replace"; "down" when the process has been stopped
    decks,              \* the selected deck files (selected_deck_paths), as on disk
    phrases,            \* the phrases loaded from them
    favs_file,          \* FAV_FILE on disk
    favs_tmp,           \* FAV_FILE with ".tmp" appended, on disk
    stats_file,         \* STATS_FILE on disk
    q,                  \* sidebar search text (a sequence of characters)
    fav_only,           \* sidebar "Favorites only" checkbox
    favs,               \* st.session_state.favs
    stats,              \* st.session_state.stats["by_id"]
    selected_id,        \* st.session_state.selected_id
    in_session,         \* st.session_state.in_session
    queue,              \* st.session_state.queue
    session_correct,    \* st.session_state.session_correct
    session_incorrect,  \* st.session_state.session_incorrect
    repeat_events,      \* st.session_state.repeat_events
    session_total,      \* st.session_state.session_total
    finished_summary,   \* st.session_state.finished_summary: <<>> is None, <<s>> a summary
    last,               \* history: the handler that has just returned and its slider value
    hist,               \* history: bookkeeping since the most recent start
    track               \* history: the card missed last and the head gradings since

vars == <<pc, decks, phrases, favs_file, favs_tmp, stats_file, q, fav_only, favs, stats, selected_id, in_session, queue,
          session_correct, session_incorrect, repeat_events, session_total,
          finished_summary, last, hist, track>>

\* ------------------------------------------------------------------ bounds
\* Grade clicks (Correct / Incorrect) in one run of the model: a run is followed up to
\* and including the MaxGrades-th grading.
MaxGrades == 3

\* ------------------------------------------------------------- the decks
\* One entry of a deck file: a JSON object with the keys the loader reads (an absent or
\* null key reads as the empty text), or something that is not an object.
Entry(id, koine, english) ==
    [isdict |-> TRUE, id |-> id, koine |-> koine, english |-> english]

NotADict == [isdict |-> FALSE, id |-> <<>>, koine |-> <<>>, english |-> <<>>]

\* decks/d.json: three entries with ids of their own.
DeckD ==
    [name |-> <<"d">>,
     raw  |-> << Entry(<<"a">>, <<" ", "L", "o">>, <<"w">>),
                 Entry(<<"b">>, <<"o">>,           <<"W", "l">>),
                 Entry(<<"c">>, <<"g">>,           <<>>) >>]

\* decks/d.json with an id written twice.
DeckTwins ==
    [name |-> <<"d">>,
     raw  |-> << Entry(<<"x">>, <<"L", "o">>, <<"w">>),
                 Entry(<<"x">>, <<"o">>,      <<"W", "l">>),
                 Entry(<<>>,    <<"g">>,      <<>>) >>]

\* decks/d.json whose first entry is numbered as the second will be by default.
DeckNumbered ==
    [name |-> <<"d">>,
     raw  |-> << Entry(<<"0", "0", "0", "2">>, <<"L", "o">>, <<"w">>),
                 Entry(<<>>,                   <<"o">>,      <<"W", "l">>),
                 Entry(<<>>,                   <<"g">>,      <<>>) >>]

\* decks/d.json with an entry that is no object, one without text, one without id and
\* one whose id is padded with blanks.
DeckGaps ==
    [name |-> <<"d">>,
     raw  |-> << NotADict,
                 Entry(<<"b">>,      <<" ">>,      <<>>),
                 Entry(<<" ">>,      <<"L", "o">>, <<"w">>),
                 Entry(<<" ", "a">>, <<>>,         <<"W", "l", " ">>) >>]

\* decks/e.json, and decks/d.json cut to two entries: loaded together.
DeckE == [name |-> <<"e">>, raw |-> << Entry(<<"a">>, <<"g">>, <<>>) >>]

DeckD2 ==
    [name |-> <<"d">>,
     raw  |-> << Entry(<<"a">>, <<"L", "o">>, <<"w">>),
                 Entry(<<>>,    <<"o">>,      <<"W", "l">>) >>]

\* decks/d.json and decks/d:1.json, the id of one spelling out the name of the other.
DeckColonOuter ==
    [name |-> <<"d">>,
     raw  |-> << Entry(<<"1", ":", "a">>, <<"L", "o">>, <<"w">>),
                 Entry(<<>>,              <<"o">>,      <<>>) >>]

DeckColonInner ==
    [name |-> <<"d", ":", "1">>,
     raw  |-> << Entry(<<"a">>, <<"g">>, <<>>) >>]

\* Selections of deck files the app is started with.
DeckChoices ==
    { << DeckTwins >>, << DeckNumbered >>, << DeckGaps >>,
      << DeckD2, DeckE >>, << DeckColonOuter, DeckColonInner >> }

\* Search texts the user types.
Queries == { <<>>, <<" ", "L", "O">> }

\* Search texts for the filter on its own: blank, padded, upper case, matching the
\* translation only, matching nothing.
FilterQueries == { <<>>, <<" ">>, <<" ", "L", "O">>, <<"W", " ">>, <<"g", "g">> }

\* Largest value of the "Repeat incorrect after N cards" slider.
SliderMax == 8

\* Slider positions tried: the front, inside the queue, its last place, and past its end.
RepeatAfterValues == {0, 1, 2, SliderMax}

\* None, told apart from every id (an id holds a colon)
None == <<>>

\* ------------------------------------------------------------ pure helpers
Min(x, y) == IF x <= y THEN x ELSE y

Range(s) == {s[i] : i \in 1..Len(s)}

\* 1-based position of the first x in s (0 when absent): list.index.
IndexOf(s, x) ==
    IF x \in Range(s) THEN CHOOSE i \in 1..Len(s) : s[i] = x /\ \A j \in 1..(i-1) : s[j] # x
    ELSE 0

\* str.lower on one character.
LowerChar(ch) == CASE ch = "L" -> "l" [] ch = "O" -> "o" [] ch = "W" -> "w" [] OTHER -> ch

Lower(s) == [i \in 1..Len(s) |-> LowerChar(s[i])]

RECURSIVE LStrip(_)
LStrip(s) == IF s # <<>> /\ Head(s) = " " THEN LStrip(Tail(s)) ELSE s

RECURSIVE RStrip(_)
RStrip(s) == IF s # <<>> /\ s[Len(s)] = " " THEN RStrip(SubSeq(s, 1, Len(s) - 1)) ELSE s

\* str.strip
Strip(s) == RStrip(LStrip(s))

\* needle in hay
Contains(needle, hay) ==
    \E i \in 0..(Len(hay) - Len(needle)) : SubSeq(hay, i + 1, i + Len(needle)) = needle

\* ------------------------------------------------------------ deck loading
Digits == <<"0", "1", "2", "3", "4", "5", "6", "7", "8", "9">>

\* f"{n:04d}", for the n < 10000 of these decks
Fmt04(n) ==
    << Digits[((n \div 1000) % 10) + 1], Digits[((n \div 100) % 10) + 1],
       Digits[((n \div 10) % 10) + 1],   Digits[(n % 10) + 1] >>

\* str(p.get("id") or f"{i+1:04d}").strip() or f"{i+1:04d}", n being i + 1
base_id(p, n) == IF Strip(p.id) # <<>> THEN Strip(p.id) ELSE Fmt04(n)

\* The record load_deck_file keeps for entry p at place n of the deck deck_name.
normalized(deck_name, p, n) ==
    [id      |-> deck_name \o <<":">> \o base_id(p, n),
     koine   |-> Strip(p.koine),
     english |-> Strip(p.english)]

RECURSIVE load_from(_, _)
load_from(path, n) ==
    IF n > Len(path.raw) THEN <<>>
    ELSE LET p == path.raw[n]
         IN  (IF p.isdict /\ (Strip(p.koine) # <<>> \/ Strip(p.english) # <<>>)
              THEN << normalized(path.name, p, n) >>
              ELSE <<>>) \o load_from(path, n + 1)

\* load_deck_file(path): path.name is path.stem, path.raw the JSON list in the file.
load_deck_file(path) == load_from(path, 1)

\* The deck loading loop: phrases.extend(load_deck_file(path)) for every selected path.
RECURSIVE load_decks(_)
load_decks(paths) ==
    IF paths = <<>> THEN <<>>
    ELSE load_deck_file(Head(paths)) \o load_decks(Tail(paths))

\* The phrases of decks/d.json (their ids are distinct).
Phrases == load_decks(<< DeckD >>)

Ids == {Phrases[i].id : i \in 1..Len(Phrases)}

\* Mutant: the search text is trimmed but compared as typed, not lowercased.
match_as_typed(p) ==
    IF fav_only /\ p.id \notin favs THEN FALSE
    ELSE IF Strip(q) # <<>>
         THEN Contains(Strip(q), Lower(p.koine)) \/ Contains(Strip(q), Lower(p.english))
         ELSE TRUE

\* match(p) of the filter section.
match(p) ==
    IF fav_only /\ p.id \notin favs THEN FALSE
    ELSE IF Strip(q) # <<>>
         THEN Contains(Lower(Strip(q)), Lower(p.koine)) \/ Contains(Lower(Strip(q)), Lower(p.english))
         ELSE TRUE

filtered == SelectSeq(phrases, match)

filtered_ids == [i \in 1..Len(filtered) |-> filtered[i].id]

\* The keys of id_to_phrase.
id_to_phrase == Range(filtered_ids)

\* The script reaches the buttons only when the filter leaves something.
Rendered == filtered_ids # <<>>

\* random.shuffle: every reordering of s.
Shuffles(s) == { [i \in 1..Len(s) |-> s[f[i]]] : f \in Permutations(1..Len(s)) }

\* list(a_set): the elements in some order.
ListOf(S) == { s \in [1..Cardinality(S) -> S] : Range(s) = S }


\* Mutant: the discard is forgotten.
DiscardNothing(S, x) == S

\* set.discard
Discard(S, x) == S \ {x}

\* [x for x in queue if x != pid]
RemoveAll(s, pid) == SelectSeq(s, LAMBDA x : x # pid)

\* list.insert(i, x), i counted from 0
InsertAt(s, i, x) == SubSeq(s, 1, i) \o <<x>> \o SubSeq(s, i + 1, Len(s))


\* Mutant: the card is put one place too far back.
RequeueOneLate(s, pid, repeat_after) ==
    InsertAt(RemoveAll(s, pid), Min(repeat_after + 1, Len(RemoveAll(s, pid))), pid)

\* The queue of mark_incorrect: pid taken out and put back at min(repeat_after, len).
Requeue(s, pid, repeat_after) ==
    InsertAt(RemoveAll(s, pid), Min(repeat_after, Len(RemoveAll(s, pid))), pid)


\* Mutant: the two counts are stored under each other's key.
SummarySwapped(total, sc, si, re) ==
    [total |-> total, correct |-> Cardinality(si), incorrect |-> Cardinality(sc),
     repeat_events |-> re]

\* The record end_session stores.
SummaryOf(total, sc, si, re) ==
    [total |-> total, correct |-> Cardinality(sc), incorrect |-> Cardinality(si),
     repeat_events |-> re]

ZeroRec == [correct |-> 0, incorrect |-> 0]

\* Mutant: the record of pid is started afresh at every bump.
bump_stat_afresh(by_id, pid, key) ==
    [x \in (DOMAIN by_id) \cup {pid} |->
        IF x = pid THEN [ZeroRec EXCEPT ![key] = @ + 1] ELSE by_id[x]]

\* bump_stat on the by_id map
bump_stat(by_id, pid, key) ==
    [x \in (DOMAIN by_id) \cup {pid} |->
        IF x = pid
        THEN [(IF pid \in DOMAIN by_id THEN by_id[pid] ELSE ZeroRec) EXCEPT ![key] = @ + 1]
        ELSE by_id[x]]

\* ------------------------------------------------------------- the stores
\* A file on disk: NoFile when it does not exist, otherwise its content; whole is FALSE
\* while the text written so far is not yet a complete JSON document.
NoFile == <<>>

FileOf(data, whole) == << [data |-> data, whole |-> whole] >>

\* Code points of the characters ids are made of, for the order of sorted().
Ord(ch) ==
    CASE ch = "0" -> 48 [] ch = "1" -> 49 [] ch = "2" -> 50 [] ch = "3" -> 51
      [] ch = ":" -> 58 [] ch = "a" -> 97 [] ch = "b" -> 98 [] ch = "c" -> 99
      [] ch = "d" -> 100 [] ch = "e" -> 101 [] ch = "x" -> 120

\* s < t on str
RECURSIVE less(_, _)
less(s, t) ==
    IF t = <<>> THEN FALSE
    ELSE IF s = <<>> THEN TRUE
    ELSE IF Head(s) = Head(t) THEN less(Tail(s), Tail(t))
    ELSE Ord(Head(s)) < Ord(Head(t))

\* sorted(list(S))
sorted(S) ==
    CHOOSE s \in ListOf(S) : \A i \in 1..(Len(s) - 1) : less(s[i], s[i + 1])

\* safe_write_json run to its end: the file holds the whole document.
safe_write_json(data) == FileOf(data, TRUE)

\* save_favs(favs): the file it leaves
save_favs(S) == safe_write_json(sorted(S))

\* save_stats(stats): the file it leaves (by_id is the one key of the document)
save_stats(by_id) == safe_write_json(by_id)

\* load_favs(): a missing or unreadable file gives the empty set.
load_favs(file) ==
    IF file = NoFile \/ ~file[1].whole THEN {} ELSE Range(file[1].data)

\* load_stats(): a missing or unreadable file gives no records.
load_stats(file) ==
    IF file = NoFile \/ ~file[1].whole THEN <<>> ELSE file[1].data

RECURSIVE SumOver(_, _)
SumOver(f, S) ==
    IF S = {} THEN 0
    ELSE LET x == CHOOSE y \in S : TRUE
         IN f[x].correct + f[x].incorrect + SumOver(f, S \ {x})

TotalGrades == SumOver(stats, DOMAIN stats)

\* ensure_selected_valid, as a function of the session fields it reads.
ensure_selected_valid(sel, ins, qu) ==
    IF ins /\ qu # <<>> /\ qu[1] \in id_to_phrase THEN qu[1]
    ELSE IF sel \in id_to_phrase THEN sel
    ELSE filtered_ids[1]

\* Mutant: the step stops at the end of the list instead of wrapping round.
browse_next_clamped(sel) ==
    filtered_ids[Min(IndexOf(filtered_ids, sel) + 1, Len(filtered_ids))]

\* browse_next / browse_prev: the id they select.
browse_next_id(sel) ==
    filtered_ids[((IndexOf(filtered_ids, sel) - 1 + 1) % Len(filtered_ids)) + 1]

browse_prev_id(sel) ==
    filtered_ids[((IndexOf(filtered_ids, sel) - 1 - 1) % Len(filtered_ids)) + 1]

\* ------------------------------------------------------------------ history
NoTrack == [valid |-> FALSE, id |-> None, k |-> 0, n |-> 0, c |-> 0]

\* ok: since the most recent start nothing was done but grading cards of the queue
\* correct; n: the number of ids of that start;
\* nc: the Correct gradings since; inc: the Incorrect gradings made in session since;
\* reset: "Reset session" was pressed since; heads: every grading since was made in the
\* running session on the head of its queue.
NoHist == [ok |-> FALSE, n |-> 0, nc |-> 0, inc |-> 0, reset |-> FALSE, heads |-> FALSE]

Started(ids) ==
    [ok |-> TRUE, n |-> Len(ids), nc |-> 0, inc |-> 0, reset |-> FALSE, heads |-> TRUE]

Spoilt(h) == [h EXCEPT !.ok = FALSE, !.n = 0, !.nc = 0]

\* The grading about to be made is one of the running session, on the head of its queue.
OnHead == in_session /\ queue # <<>> /\ selected_id = queue[1]

Graded(h) == [h EXCEPT !.heads = @ /\ OnHead]

Op(name) == [op |-> name, k |-> 0]

\* ------------------------------------------------------------------- Init
\* ss_init() on a fresh st.session_state.
ss_init ==
    /\ favs = load_favs(favs_file)
    /\ stats = load_stats(stats_file)
    /\ selected_id = None
    /\ in_session = FALSE
    /\ queue = <<>>
    /\ session_correct = {}
    /\ session_incorrect = {}
    /\ repeat_events = 0
    /\ session_total = 0
    /\ finished_summary = <<>>

\* The widgets as first drawn, and nothing on record.
Fresh ==
    /\ q = <<>>
    /\ fav_only = FALSE
    /\ last = Op("init")
    /\ hist = NoHist
    /\ track = NoTrack

\* First start of the app with decks/d.json selected and no store file yet: the state
\* after ss_init(), the script about to load the deck and draw the page.
Init ==
    /\ decks = << DeckD >>
    /\ phrases = load_decks(decks)
    /\ favs_file = NoFile
    /\ favs_tmp = NoFile
    /\ stats_file = NoFile
    /\ ss_init
    /\ Fresh
    /\ pc = "rerun"


\* ------------------------------------------------- the engine's operations
sessVars == <<in_session, queue, session_correct, session_incorrect,
              repeat_events, session_total, finished_summary>>

widgetVars == <<q, fav_only>>

deckVars == <<decks, phrases>>

diskVars == <<favs_file, favs_tmp, stats_file>>


\* Mutant: the summary is taken from the sets as they were before the grading.
end_session_stale(sc, si) ==
    /\ finished_summary' =
          << SummaryOf(session_total, session_correct, session_incorrect, repeat_events) >>
    /\ in_session' = FALSE
    /\ queue' = <<>>

\* Mutant: the queue is left as it is when the session ends.
end_session_keeps_queue(sc, si) ==
    /\ finished_summary' = << SummaryOf(session_total, sc, si, repeat_events) >>
    /\ in_session' = FALSE
    /\ queue' = queue

\* end_session(store_summary=True), reading the sets sc, si as they are at the call.
end_session(sc, si) ==
    /\ finished_summary' = << SummaryOf(session_total, sc, si, repeat_events) >>
    /\ in_session' = FALSE
    /\ queue' = <<>>


\* Mutant: the repeat counter of the previous session is kept.
start_keeps_repeats(ids) ==
    \E s \in Shuffles(ids) :
        /\ queue' = s
        /\ session_correct' = {}
        /\ session_incorrect' = {}
        /\ repeat_events' = repeat_events
        /\ session_total' = Len(s)
        /\ finished_summary' = <<>>
        /\ in_session' = TRUE
        /\ selected_id' = IF s # <<>> THEN s[1] ELSE selected_id

\* start_mastery_session(ids)
start_mastery_session(ids) ==
    \E s \in Shuffles(ids) :
        /\ queue' = s
        /\ session_correct' = {}
        /\ session_incorrect' = {}
        /\ repeat_events' = 0
        /\ session_total' = Len(s)
        /\ finished_summary' = <<>>
        /\ in_session' = TRUE
        /\ selected_id' = IF s # <<>> THEN s[1] ELSE selected_id


\* Mutant: the current card is not moved to the new head.
reshuffle_keeps_selection ==
    IF in_session /\ queue # <<>>
    THEN \E s \in Shuffles(queue) :
            /\ queue' = s
            /\ selected_id' = selected_id
    ELSE UNCHANGED <<queue, selected_id>>

\* reshuffle_session()
reshuffle_session ==
    IF in_session /\ queue # <<>>
    THEN \E s \in Shuffles(queue) :
            /\ queue' = s
            /\ selected_id' = s[1]
    ELSE UNCHANGED <<queue, selected_id>>

\* mark_correct(pid)
mark_correct(pid) ==
    /\ session_correct' = session_correct \cup {pid}
    /\ session_incorrect' = Discard(session_incorrect, pid)
    /\ stats' = bump_stat(stats, pid, "correct")
    /\ stats_file' = save_stats(bump_stat(stats, pid, "correct"))
    /\ UNCHANGED <<repeat_events, session_total>>
    /\ IF in_session
       THEN IF RemoveAll(queue, pid) # <<>>
            THEN /\ queue' = RemoveAll(queue, pid)
                 /\ selected_id' = RemoveAll(queue, pid)[1]
                 /\ UNCHANGED <<in_session, finished_summary>>
            ELSE /\ end_session(session_correct \cup {pid}, Discard(session_incorrect, pid))
                 /\ UNCHANGED selected_id
       ELSE /\ selected_id' = browse_next_id(selected_id)
            /\ UNCHANGED <<in_session, queue, finished_summary>>


\* Mutant: a miss is counted as a repeat out of session too.
mark_incorrect_counts_idle(pid, repeat_after) ==
    /\ session_incorrect' = session_incorrect \cup {pid}
    /\ session_correct' = Discard(session_correct, pid)
    /\ stats' = bump_stat(stats, pid, "incorrect")
    /\ stats_file' = save_stats(bump_stat(stats, pid, "incorrect"))
    /\ UNCHANGED <<in_session, session_total, finished_summary>>
    /\ repeat_events' = repeat_events + 1
    /\ IF in_session
       THEN /\ queue' = Requeue(queue, pid, repeat_after)
            /\ selected_id' = Requeue(queue, pid, repeat_after)[1]
       ELSE /\ selected_id' = browse_next_id(selected_id)
            /\ UNCHANGED queue

\* mark_incorrect(pid, repeat_after)
mark_incorrect(pid, repeat_after) ==
    /\ session_incorrect' = session_incorrect \cup {pid}
    /\ session_correct' = Discard(session_correct, pid)
    /\ stats' = bump_stat(stats, pid, "incorrect")
    /\ stats_file' = save_stats(bump_stat(stats, pid, "incorrect"))
    /\ UNCHANGED <<in_session, session_total, finished_summary>>
    /\ IF in_session
       THEN /\ repeat_events' = repeat_events + 1
            /\ queue' = Requeue(queue, pid, repeat_after)
            /\ selected_id' = Requeue(queue, pid, repeat_after)[1]
       ELSE /\ selected_id' = browse_next_id(selected_id)
            /\ UNCHANGED <<repeat_events, queue>>

\* Mutant: the changed set is not saved.
toggle_fav_unsaved(pid) ==
    /\ favs' = IF pid \in favs THEN favs \ {pid} ELSE favs \cup {pid}
    /\ favs_file' = favs_file

\* The set toggle_fav leaves in memory.
toggled(S, pid) == IF pid \in S THEN S \ {pid} ELSE S \cup {pid}

\* toggle_fav(pid), the save included
toggle_fav(pid) ==
    /\ favs' = toggled(favs, pid)
    /\ favs_file' = save_favs(toggled(favs, pid))


\* Mutant: the button starts a session whatever the list holds.
MissedGuardAbsent(missed) == TRUE

\* "if missed:" of the Study missed only button
MissedGuard(missed) == missed # <<>>

\* ---------------------------------------------------- buttons and widgets
\* The page waits for the user.  A run of the model is followed up to and including
\* its MaxGrades-th grading.
Ready == pc = "ready" /\ TotalGrades < MaxGrades

\* The top of the script, run again after st.rerun() or a widget change.
Rerun ==
    /\ pc = "rerun"
    /\ pc' = "ready"
    /\ selected_id' = IF Rendered
                      THEN ensure_selected_valid(selected_id, in_session, queue)
                      ELSE selected_id
    /\ last' = Op("none")
    /\ UNCHANGED <<widgetVars, deckVars, diskVars, favs, stats, sessVars, hist, track>>

\* The search box.
SetQuery ==
    /\ Ready
    /\ \E nq \in Queries \ {q} : q' = nq
    /\ pc' = "rerun"
    /\ last' = Op("query")
    /\ hist' = Spoilt(hist)
    /\ track' = NoTrack
    /\ UNCHANGED <<fav_only, deckVars, diskVars, favs, stats, selected_id, sessVars>>

\* The "Favorites only" checkbox.
SetFavOnly ==
    /\ Ready
    /\ fav_only' = ~fav_only
    /\ pc' = "rerun"
    /\ last' = Op("fav_only")
    /\ hist' = Spoilt(hist)
    /\ track' = NoTrack
    /\ UNCHANGED <<q, deckVars, diskVars, favs, stats, selected_id, sessVars>>

\* "Reset session" (sidebar, above the filter).
ResetSession ==
    /\ Ready
    /\ in_session' = FALSE
    /\ queue' = <<>>
    /\ session_correct' = {}
    /\ session_incorrect' = {}
    /\ repeat_events' = 0
    /\ session_total' = 0
    /\ finished_summary' = <<>>
    /\ pc' = "rerun"
    /\ last' = Op("reset")
    /\ hist' = [Spoilt(hist) EXCEPT !.reset = TRUE]
    /\ track' = NoTrack
    /\ UNCHANGED <<widgetVars, deckVars, diskVars, favs, stats, selected_id>>

\* "Session"
StartSession ==
    /\ Ready /\ Rendered
    /\ start_mastery_session(filtered_ids)
    /\ pc' = "rerun"
    /\ last' = Op("start")
    /\ hist' = Started(filtered_ids)
    /\ track' = NoTrack
    /\ UNCHANGED <<widgetVars, deckVars, diskVars, favs, stats>>

\* "Shuffle"
Shuffle ==
    /\ Ready /\ Rendered
    /\ reshuffle_session
    /\ pc' = "rerun"
    /\ last' = Op("shuffle")
    /\ hist' = Spoilt(hist)
    /\ track' = NoTrack
    /\ UNCHANGED <<widgetVars, deckVars, diskVars, favs, stats, in_session, session_correct, session_incorrect,
                   repeat_events, session_total, finished_summary>>


\* Mutant: the button also clears the two sets, as "Reset session" does.
EndClearsSets ==
    /\ Ready /\ Rendered
    /\ end_session(session_correct, session_incorrect)
    /\ session_correct' = {}
    /\ session_incorrect' = {}
    /\ pc' = "rerun"
    /\ last' = Op("end")
    /\ hist' = Spoilt(hist)
    /\ track' = NoTrack
    /\ UNCHANGED <<widgetVars, deckVars, diskVars, favs, stats, selected_id, repeat_events, session_total>>

\* "End"
End ==
    /\ Ready /\ Rendered
    /\ end_session(session_correct, session_incorrect)
    /\ pc' = "rerun"
    /\ last' = Op("end")
    /\ hist' = Spoilt(hist)
    /\ track' = NoTrack
    /\ UNCHANGED <<widgetVars, deckVars, diskVars, favs, stats, selected_id, session_correct, session_incorrect,
                   repeat_events, session_total>>

\* The star button.
ToggleFav ==
    /\ Ready /\ Rendered
    /\ toggle_fav(selected_id)
    /\ pc' = "rerun"
    /\ last' = Op("fav")
    /\ hist' = Spoilt(hist)
    /\ track' = NoTrack
    /\ UNCHANGED <<widgetVars, deckVars, favs_tmp, stats_file, stats, selected_id, sessVars>>

\* "Study missed only" (shown with the finished summary).
StudyMissed ==
    /\ Ready /\ Rendered
    /\ ~in_session /\ finished_summary # <<>>
    /\ \E missed \in ListOf(session_incorrect) :
          IF MissedGuard(missed)
          THEN /\ start_mastery_session(missed)
               /\ pc' = "rerun"
               /\ hist' = Started(missed)
          ELSE /\ UNCHANGED <<sessVars, selected_id, hist>>
               /\ pc' = "ready"
    /\ last' = Op("study_missed")
    /\ track' = NoTrack
    /\ UNCHANGED <<widgetVars, deckVars, diskVars, favs, stats>>

\* Mutant: the button starts over the cards graded in the session that has ended.
Restart_graded ==
    /\ Ready /\ Rendered
    /\ ~in_session /\ finished_summary # <<>>
    /\ \E ids \in ListOf(session_correct \cup session_incorrect) :
          /\ start_mastery_session(ids)
          /\ hist' = Started(ids)
    /\ pc' = "rerun"
    /\ last' = [op |-> "restart", k |-> session_total]
    /\ track' = NoTrack
    /\ UNCHANGED <<widgetVars, deckVars, diskVars, favs, stats>>

\* "Restart full session" (shown with the finished summary); last'.k keeps the size of
\* the session the summary is about.
Restart ==
    /\ Ready /\ Rendered
    /\ ~in_session /\ finished_summary # <<>>
    /\ start_mastery_session(filtered_ids)
    /\ pc' = "rerun"
    /\ last' = [op |-> "restart", k |-> session_total]
    /\ hist' = Started(filtered_ids)
    /\ track' = NoTrack
    /\ UNCHANGED <<widgetVars, deckVars, diskVars, favs, stats>>

\* "Prev"
Prev ==
    /\ Ready /\ Rendered
    /\ selected_id' = IF in_session THEN selected_id ELSE browse_prev_id(selected_id)
    /\ pc' = "rerun"
    /\ last' = Op("prev")
    /\ hist' = Spoilt(hist)
    /\ track' = NoTrack
    /\ UNCHANGED <<widgetVars, deckVars, diskVars, favs, stats, sessVars>>

\* "Next": rotates the card to the end of the queue in a session, browses otherwise.
NextCard ==
    /\ Ready /\ Rendered
    /\ IF in_session /\ queue # <<>>
       THEN /\ queue' = RemoveAll(queue, selected_id) \o <<selected_id>>
            /\ UNCHANGED selected_id
       ELSE /\ selected_id' = browse_next_id(selected_id)
            /\ UNCHANGED queue
    /\ pc' = "rerun"
    /\ last' = Op("next")
    /\ hist' = Spoilt(hist)
    /\ track' = NoTrack
    /\ UNCHANGED <<widgetVars, deckVars, diskVars, favs, stats, in_session, session_correct, session_incorrect,
                   repeat_events, session_total, finished_summary>>

\* "Correct"
Correct ==
    /\ Ready /\ Rendered
    /\ mark_correct(selected_id)
    /\ pc' = "rerun"
    /\ last' = Op("correct")
    /\ hist' = Graded(IF hist.ok /\ in_session /\ selected_id \in Range(queue)
                       THEN [hist EXCEPT !.nc = @ + 1]
                       ELSE Spoilt(hist))
    /\ track' = IF /\ track.valid /\ in_session /\ queue # <<>>
                   /\ selected_id = queue[1] /\ selected_id # track.id
                THEN [track EXCEPT !.c = @ + 1]
                ELSE NoTrack
    /\ UNCHANGED <<widgetVars, deckVars, favs_file, favs_tmp, favs>>

\* "Incorrect", with the slider at repeat_after
Incorrect ==
    /\ Ready /\ Rendered
    /\ \E repeat_after \in RepeatAfterValues :
          /\ mark_incorrect(selected_id, repeat_after)
          /\ last' = [op |-> "incorrect", k |-> repeat_after]
          /\ track' = IF in_session /\ queue # <<>> /\ selected_id = queue[1]
                      THEN [valid |-> TRUE, id |-> selected_id, k |-> repeat_after,
                            n |-> Len(queue), c |-> 0]
                      ELSE NoTrack
    /\ pc' = "rerun"
    /\ hist' = Graded([Spoilt(hist) EXCEPT !.inc = IF in_session THEN @ + 1 ELSE @])
    /\ UNCHANGED <<widgetVars, deckVars, favs_file, favs_tmp, favs>>

\* "Jump to phrase": the selection moves to the chosen entry; the rerun then re-resolves
\* it (in a session, back to the head of the queue when the filter still shows it).
Jump ==
    /\ Ready /\ Rendered
    /\ \E chosen_id \in id_to_phrase \ {selected_id} : selected_id' = chosen_id
    /\ pc' = "rerun"
    /\ last' = Op("jump")
    /\ hist' = Spoilt(hist)
    /\ track' = NoTrack
    /\ UNCHANGED <<widgetVars, deckVars, diskVars, favs, stats, sessVars>>

\* The session engine under every button and the search box; the favourites stay as
\* loaded (none), so the filter changes through the search text alone.
Next ==
    \/ Rerun
    \/ SetQuery
    \/ ResetSession
    \/ StartSession
    \/ Shuffle
    \/ End
    \/ StudyMissed
    \/ Restart
    \/ Prev
    \/ NextCard
    \/ Correct
    \/ Incorrect
    \/ Jump

Spec == Init /\ [][Next]_vars


\* ---------------------------------------------------------------- any decks
\* First start of the app with one of the deck selections.
InitDecks ==
    /\ decks \in DeckChoices
    /\ phrases = <<>>
    /\ favs_file = NoFile
    /\ favs_tmp = NoFile
    /\ stats_file = NoFile
    /\ ss_init
    /\ Fresh
    /\ pc = "load"

\* The deck loading loop of the first script run (later runs load the same files again
\* and get the same list).
LoadDecks ==
    /\ pc = "load"
    /\ phrases' = load_decks(decks)
    /\ pc' = "rerun"
    /\ UNCHANGED <<decks, diskVars, widgetVars, favs, stats, selected_id, sessVars,
                   last, hist, track>>

\* The session engine and the browse buttons over whatever the decks hold, the search
\* box left empty.
NextDecks ==
    \/ LoadDecks
    \/ Rerun
    \/ ResetSession
    \/ StartSession
    \/ Shuffle
    \/ End
    \/ StudyMissed
    \/ Prev
    \/ NextCard
    \/ Correct
    \/ Incorrect

SpecDecks == InitDecks /\ [][NextDecks]_vars


\* ------------------------------------------------- the save, step by step
\* toggle_fav(selected_id) up to the call of save_favs: the set is changed in memory and
\* safe_write_json is entered (the data directory exists, mkdir does nothing).
ToggleFavBegin ==
    /\ Ready /\ Rendered
    /\ favs' = toggled(favs, selected_id)
    /\ pc' = "open"
    /\ last' = Op("fav")
    /\ UNCHANGED <<widgetVars, deckVars, diskVars, stats, selected_id, sessVars, hist, track>>

\* open(tmp, "w"): the temporary file is created, or emptied when a stopped run left it.
OpenTmp ==
    /\ pc = "open"
    /\ favs_tmp' = FileOf(<<>>, FALSE)
    /\ pc' = "dump"
    /\ UNCHANGED <<widgetVars, deckVars, favs_file, stats_file, favs, stats, selected_id,
                   sessVars, last, hist, track>>

\* json.dump into the open file: the ids reach the disk one after the other; the write
\* after the last id ends the document and the with block closes the file.
Dump ==
    /\ pc = "dump"
    /\ LET done == favs_tmp[1].data
           all  == sorted(favs)
       IN  IF Len(done) < Len(all)
           THEN /\ favs_tmp' = FileOf(Append(done, all[Len(done) + 1]), FALSE)
                /\ pc' = "dump"
           ELSE /\ favs_tmp' = FileOf(done, TRUE)
                /\ pc' = "replace"
    /\ UNCHANGED <<widgetVars, deckVars, favs_file, stats_file, favs, stats, selected_id,
                   sessVars, last, hist, track>>


\* Mutant: the rename does not wait for the file to be written and closed.
tmp_still_open == pc \in {"dump", "replace"}

\* The with block of safe_write_json has been left: the temporary file is closed.
tmp_closed == pc = "replace"

\* tmp.replace(path): one rename; toggle_fav returns and the star button reruns.
Replace ==
    /\ tmp_closed
    /\ favs_file' = favs_tmp
    /\ favs_tmp' = NoFile
    /\ pc' = "rerun"
    /\ UNCHANGED <<widgetVars, deckVars, stats_file, favs, stats, selected_id, sessVars,
                   last, hist, track>>

\* The process is stopped, at any point: its memory is gone, the files stay as they are.
Crash ==
    /\ pc # "down"
    /\ pc' = "down"
    /\ favs' = {}
    /\ stats' = <<>>
    /\ selected_id' = None
    /\ last' = Op("none")
    /\ UNCHANGED <<widgetVars, deckVars, diskVars, sessVars, hist, track>>

\* The app is started again: ss_init() reads the stores.
Boot ==
    /\ pc = "down"
    /\ favs' = load_favs(favs_file)
    /\ stats' = load_stats(stats_file)
    /\ selected_id' = None
    /\ pc' = "rerun"
    /\ last' = Op("init")
    /\ UNCHANGED <<widgetVars, deckVars, diskVars, sessVars, hist, track>>

\* A start of the app on whatever earlier runs left: no favourites file or one that was
\* saved, and possibly a temporary file of a run stopped while writing.
InitSave ==
    /\ decks = << DeckD >>
    /\ phrases = load_decks(decks)
    /\ favs_file \in {NoFile} \cup {save_favs(S) : S \in SUBSET Ids}
    /\ favs_tmp \in {NoFile, FileOf(<<>>, FALSE)}
    /\ stats_file = NoFile
    /\ ss_init
    /\ Fresh
    /\ pc = "rerun"

\* Browsing and starring, the save of the favourites taken step by step, with stops.
NextSave ==
    \/ Rerun
    \/ NextCard
    \/ ToggleFavBegin
    \/ OpenTmp
    \/ Dump
    \/ Replace
    \/ Crash
    \/ Boot

SpecSave == InitSave /\ [][NextSave]_vars


\* ------------------------------------------------------------ the two stores
\* Browsing, starring and grading out of session: every writer of the two stores.
NextFav ==
    \/ Rerun
    \/ SetFavOnly
    \/ ToggleFav
    \/ NextCard
    \/ Correct
    \/ Incorrect

SpecFav == Init /\ [][NextFav]_vars


\* ---------------------------------------------------------------- the filter
\* The search box, typed into with any of the filter texts.
TypeQuery ==
    /\ Ready
    /\ \E nq \in FilterQueries \ {q} : q' = nq
    /\ pc' = "rerun"
    /\ last' = Op("query")
    /\ hist' = Spoilt(hist)
    /\ track' = NoTrack
    /\ UNCHANGED <<fav_only, deckVars, diskVars, favs, stats, selected_id, sessVars>>

\* Everything the filter reads, over any decks: the search box, the checkbox and the
\* stars, with the jump list to move the selection.
NextFilter ==
    \/ LoadDecks
    \/ Rerun
    \/ TypeQuery
    \/ SetFavOnly
    \/ ToggleFav
    \/ Jump

SpecFilter == InitDecks /\ [][NextFilter]_vars


\* ======================================================================
\* Properties
\* ======================================================================
\* A button handler runs from a "ready" state; last' names it.
Handled(name) == pc = "ready" /\ last'.op = name

\* How often x occurs in s.
Count(s, x) == Cardinality({i \in 1..Len(s) : s[i] = x})

\* t is a reordering of s.
IsPermutation(t, s) ==
    /\ Len(t) = Len(s)
    /\ \A x \in Range(s) \cup Range(t) : Count(t, x) = Count(s, x)

\* Any two ids of t stand in t in the order they stand in s.
OrderKept(t, s) ==
    \A x, y \in Range(t) :
        IndexOf(t, x) < IndexOf(t, y) => IndexOf(s, x) < IndexOf(s, y)

\* ---------------------------------------------------------------- C1
\* C1: in every reachable state no phrase id is both in session_correct and in
\* session_incorrect.
C1_SetsDisjoint == session_correct \cap session_incorrect = {}

\* A card graded in a session that holds both kinds of outcome.
C1_Witness ==
    /\ last.op = "incorrect"
    /\ in_session
    /\ session_correct # {}
    /\ session_incorrect # {}

\* ---------------------------------------------------------------- C2
\* C2: in a running session mark_incorrect(id, repeat_after) leaves the length of the
\* queue as it was, puts id at index min(repeat_after, n-1) and keeps the order of the
\* other ids, for every id it is called with.
C2_QueueConservation ==
    [][ (Handled("incorrect") /\ in_session) =>
           /\ Len(queue') = Len(queue)
           /\ IndexOf(queue', selected_id) = Min(last'.k, Len(queue) - 1) + 1
           /\ Count(queue', selected_id) = 1
           /\ OrderKept(RemoveAll(queue', selected_id), queue) ]_vars

\* ---------------------------------------------------------------- C3
\* C3: after a start with N ids, while every grading is a Correct on a card of the
\* queue, the session is running exactly as long as fewer than N gradings were made;
\* at the N-th it has ended with an empty queue and the summary total N, correct N,
\* incorrect 0.
C3_Completion ==
    hist.ok =>
        /\ in_session <=> hist.nc < hist.n
        /\ ~in_session =>
              /\ queue = <<>>
              /\ finished_summary # <<>>
              /\ finished_summary[1].total = hist.n
              /\ finished_summary[1].correct = hist.n
              /\ finished_summary[1].incorrect = 0

\* A session of three cards completed by three Correct gradings.
C3_Witness ==
    /\ hist.ok
    /\ hist.n = 3
    /\ hist.nc = 3
    /\ ~in_session
    /\ last.op = "correct"

\* ---------------------------------------------------------------- C4
\* C4: in a running session mark_correct(id) takes every occurrence of id out of the
\* queue and keeps the order of the rest; if ids remain the new queue[0] is the current
\* card and the session goes on; if none remains the session is idle and the summary is
\* {session_total, |session_correct|, |session_incorrect|, repeat_events} with id
\* already added to session_correct and removed from session_incorrect.
C4_MarkCorrect ==
    [][ (Handled("correct") /\ in_session) =>
           /\ Range(queue') = Range(queue) \ {selected_id}
           /\ \A x \in Range(queue') : Count(queue', x) = Count(queue, x)
           /\ OrderKept(queue', queue)
           /\ selected_id \in session_correct'
           /\ selected_id \notin session_incorrect'
           /\ IF Range(queue) \subseteq {selected_id}
              THEN /\ ~in_session'
                   /\ finished_summary' =
                         << [total |-> session_total,
                             correct |-> Cardinality(session_correct'),
                             incorrect |-> Cardinality(session_incorrect'),
                             repeat_events |-> repeat_events] >>
              ELSE /\ in_session'
                   /\ selected_id' = queue'[1]
                   /\ finished_summary' = finished_summary ]_vars

\* The head of a three-card session graded correct: two cards remain, the next is current.
C4_Witness ==
    /\ last.op = "correct"
    /\ in_session
    /\ session_total = 3
    /\ Len(queue) = 2
    /\ selected_id = queue[1]
    /\ Cardinality(session_correct) = 1


\* ---------------------------------------------------------------- C5
\* The state start_mastery_session leaves for the distinct ids of the set S.
StartedOver(S) ==
    /\ Range(queue') = S
    /\ Len(queue') = Cardinality(S)
    /\ session_correct' = {}
    /\ session_incorrect' = {}
    /\ repeat_events' = 0
    /\ session_total' = Cardinality(S)
    /\ finished_summary' = <<>>
    /\ in_session'
    /\ selected_id' = queue'[1]

\* C5: a start over a non-empty list of ids ("Session" and "Restart full session" over
\* the filtered ids, "Study missed only" over the missed ids), from whatever state, leaves
\* a queue that is a permutation of the ids, empty sets, repeat_events 0, session_total
\* the number of ids, no summary, a running session and queue[0] as the current card.
C5_Start ==
    [][ /\ (Handled("start") \/ Handled("restart")) => StartedOver(Range(filtered_ids))
        /\ (Handled("study_missed") /\ session_incorrect # {}) =>
               StartedOver(session_incorrect) ]_vars

\* A start pressed after gradings were made: nothing of them is left in the session.
C5_Witness ==
    /\ last.op = "start"
    /\ TotalGrades >= 2
    /\ in_session
    /\ Len(queue) = 3
    /\ session_correct = {}
    /\ repeat_events = 0

\* ---------------------------------------------------------------- C6
\* C6: a start with no ids ("Study missed only" with nothing missed) changes no field of
\* the session, the selection or the stores, and the page keeps waiting.
C6_EmptyStartNoOp ==
    [][ (Handled("study_missed") /\ session_incorrect = {}) =>
           /\ UNCHANGED <<sessVars, selected_id, stats, favs, widgetVars>>
           /\ pc' = "ready" ]_vars

\* "Study missed only" pressed on a summary with nothing missed.
C6_Witness ==
    /\ last.op = "study_missed"
    /\ pc = "ready"
    /\ session_incorrect = {}
    /\ ~in_session
    /\ finished_summary # <<>>
    /\ finished_summary[1].total = 3

\* ---------------------------------------------------------------- C7
\* C7: end_session, in any state, leaves the session idle with an empty queue and the
\* summary {session_total, |session_correct|, |session_incorrect|, repeat_events} of the
\* values at the call; the two sets, repeat_events, session_total and the lifetime stats
\* are as before.
C7_End ==
    [][ Handled("end") =>
           /\ ~in_session'
           /\ queue' = <<>>
           /\ finished_summary' =
                 << [total |-> session_total,
                     correct |-> Cardinality(session_correct),
                     incorrect |-> Cardinality(session_incorrect),
                     repeat_events |-> repeat_events] >>
           /\ UNCHANGED <<session_correct, session_incorrect, repeat_events,
                          session_total, stats>> ]_vars

\* A session of three cards stopped by hand after one hit and one miss.
C7_Witness ==
    /\ last.op = "end"
    /\ ~in_session
    /\ queue = <<>>
    /\ finished_summary = << [total |-> 3, correct |-> 1, incorrect |-> 1,
                             repeat_events |-> 1] >>

\* ---------------------------------------------------------------- C8
\* C8: reshuffle_session in a running session with cards left replaces the queue by a
\* permutation of itself and makes its head the current card, the sets, counters,
\* summary, running flag and lifetime stats staying as they are; in an idle session or
\* with an empty queue it changes nothing.
C8_Reshuffle ==
    [][ Handled("shuffle") =>
           IF in_session /\ queue # <<>>
           THEN /\ IsPermutation(queue', queue)
                /\ selected_id' = queue'[1]
                /\ UNCHANGED <<in_session, session_correct, session_incorrect,
                               repeat_events, session_total, finished_summary, stats>>
           ELSE UNCHANGED <<sessVars, selected_id, stats, favs, widgetVars>> ]_vars

\* A reshuffle of a three-card queue in a session that has a miss on record.
C8_Witness ==
    /\ last.op = "shuffle"
    /\ in_session
    /\ Len(queue) = 3
    /\ repeat_events = 1
    /\ session_incorrect # {}
    /\ selected_id = queue[1]

\* ---------------------------------------------------------------- C9
\* C9: after mark_incorrect(id, k) on the head of a running queue of n cards, followed
\* only by Correct gradings of the head, id stands min(k, n-1) minus the number of those
\* gradings behind the head: it is the current card after exactly min(k, n-1) of them
\* (at once when k = 0), not before and not later.
C9_Resurfaces ==
    track.valid =>
        LET t == Min(track.k, track.n - 1)
        IN  /\ track.c <= t
            /\ Len(queue) = track.n - track.c
            /\ IndexOf(queue, track.id) = t - track.c + 1
            /\ track.c = t => selected_id = track.id
            /\ selected_id = queue[1] => (selected_id = track.id <=> track.c = t)

\* A miss with the slider at its top in a queue of three: back in front after two hits.
C9_Witness ==
    /\ track.valid
    /\ track.n = 3
    /\ track.k = SliderMax
    /\ track.c = 2
    /\ selected_id = track.id
    /\ queue = << track.id >>

\* --------------------------------------------------------------- C10
\* C10 as stated: repeat_events is at any time the number of incorrect gradings made in
\* a running session since the most recent start.
C10_SinceStart == repeat_events = hist.inc

\* C10, amended: repeat_events is the number of incorrect gradings made in a running
\* session since the most recent start, and 0 once "Reset session" has been pressed
\* after that start; gradings made while idle, mark_correct, reshuffle, Next and end do
\* not change it.
C10_SinceStartOrReset == repeat_events = (IF hist.reset THEN 0 ELSE hist.inc)

\* Two misses counted in a session, and a later miss made while idle not counted.
C10_Witness ==
    /\ last.op = "incorrect"
    /\ ~in_session
    /\ repeat_events = 2
    /\ TotalGrades = 3
    /\ ~hist.reset

\* --------------------------------------------------------------- C11
\* C11: in every reachable state no phrase id stands twice in the queue.
C11_NoDuplicate == \A x \in Range(queue) : Count(queue, x) = 1

\* --------------------------------------------------------------- C12
\* C12: whenever Correct, Incorrect or Next is pressed in a running session, the card it
\* is applied to (selected_id) is the head of the queue, whatever filter change or jump
\* came before.
C12_GradeOnHead ==
    [][ ( /\ Handled("correct") \/ Handled("incorrect") \/ Handled("next")
          /\ in_session /\ queue # <<>> ) =>
           selected_id = queue[1] ]_vars

\* --------------------------------------------------------------- C13
\* C13: a Correct or Incorrect pressed while no session runs adds exactly 1 to the
\* matching lifetime counter of the graded id (the other counter of the id stays), moves
\* the selection to the cyclic successor of the graded id in the filtered list, and
\* leaves queue, in_session, repeat_events, session_total and the summary as they are.
C13_IdleGrade ==
    [][ ( (Handled("correct") \/ Handled("incorrect")) /\ ~in_session ) =>
           LET key   == last'.op
               other == IF key = "correct" THEN "incorrect" ELSE "correct"
               old   == IF selected_id \in DOMAIN stats THEN stats[selected_id] ELSE ZeroRec
               i     == IndexOf(filtered_ids, selected_id)
           IN  /\ stats'[selected_id][key] = old[key] + 1
               /\ stats'[selected_id][other] = old[other]
               /\ i >= 1
               /\ selected_id' = filtered_ids[(i % Len(filtered_ids)) + 1]
               /\ UNCHANGED <<queue, in_session, repeat_events, session_total,
                              finished_summary>> ]_vars

\* The last card of the list graded Incorrect under a displayed summary: the selection
\* has wrapped round to the first card and the session fields are those of the summary.
C13_Witness ==
    /\ last.op = "incorrect"
    /\ ~in_session
    /\ queue = <<>>
    /\ finished_summary # <<>>
    /\ Len(filtered_ids) = 3
    /\ selected_id = filtered_ids[1]
    /\ filtered_ids[3] \in DOMAIN stats
    /\ stats[filtered_ids[3]] = [correct |-> 0, incorrect |-> 1]
    /\ repeat_events = 0

\* --------------------------------------------------------------- C14
\* C14: every lifetime counter is a natural number and no step lowers one or drops a
\* record; a Correct or Incorrect, in or out of session, raises exactly the counter of
\* its outcome for the graded id by 1 (the record being created from zeros when absent)
\* and changes no other counter; every other step (start, reshuffle, Next, end, "Reset
\* session" among them) leaves the lifetime stats as they are.
C14_StatsMonotonic ==
    [][ LET Keys   == {"correct", "incorrect"}
            Old(x) == IF x \in DOMAIN stats THEN stats[x] ELSE ZeroRec
        IN  /\ DOMAIN stats \subseteq DOMAIN stats'
            /\ \A x \in DOMAIN stats' : \A k \in Keys :
                   stats'[x][k] \in Nat /\ stats'[x][k] >= Old(x)[k]
            /\ IF Handled("correct") \/ Handled("incorrect")
               THEN /\ DOMAIN stats' = DOMAIN stats \cup {selected_id}
                    /\ \A x \in DOMAIN stats' : \A k \in Keys :
                           stats'[x][k] =
                              Old(x)[k] + (IF x = selected_id /\ k = last'.op THEN 1 ELSE 0)
               ELSE stats' = stats ]_vars

\* "Reset session" pressed with a hit and a miss of one card on record: both are kept.
C14_Witness ==
    /\ last.op = "reset"
    /\ \E x \in DOMAIN stats : stats[x] = [correct |-> 1, incorrect |-> 1]
    /\ TotalGrades = 2
    /\ session_correct = {}
    /\ session_total = 0

\* --------------------------------------------------------------- C15
\* C15: with the save taken step by step and the process stopped between any two
\* steps, the favourites file, once it exists, never disappears and never holds an
\* unfinished document; it changes only by the rename, and then to the whole document
\* of the save in progress; a start of the app reads exactly what the file holds.
C15_AtomicSave ==
    [][ /\ favs_file' # NoFile => favs_file'[1].whole
        /\ favs_file # NoFile => favs_file' # NoFile
        /\ favs_file' # favs_file =>
               /\ pc = "replace"
               /\ favs_file' = FileOf(sorted(favs), TRUE)
        /\ (pc = "down" /\ pc' # "down") =>
               favs' = (IF favs_file = NoFile THEN {} ELSE Range(favs_file[1].data)) ]_vars

\* The process stopped in the middle of json.dump: the temporary file holds the start of
\* the new list, the favourites file the whole earlier list.
C15_Witness ==
    /\ pc = "down"
    /\ favs_tmp # NoFile
    /\ ~favs_tmp[1].whole
    /\ Len(favs_tmp[1].data) = 1
    /\ favs_file # NoFile
    /\ favs_file[1].whole
    /\ Len(favs_file[1].data) = 1
    /\ favs_file[1].data # favs_tmp[1].data

\* --------------------------------------------------------------- C16
\* C16: the star button flips the membership of the selected id in favs and of no other
\* id, so that toggling the same id once more gives the set back; when the handler
\* returns, the favourites file read back is the set in memory; and when a Correct or
\* Incorrect returns, the stats file read back is the stats in memory.
C16_ToggleWriteThrough ==
    [][ /\ Handled("fav") =>
               /\ \A x \in favs \cup favs' \cup id_to_phrase :
                      (x \in favs') <=> ((x \in favs) # (x = selected_id))
               /\ toggled(favs', selected_id) = favs
               /\ favs_file' # NoFile
               /\ load_favs(favs_file') = favs'
        /\ (Handled("correct") \/ Handled("incorrect")) =>
               /\ stats_file' # NoFile
               /\ load_stats(stats_file') = stats' ]_vars

\* A second favourite starred, one that sorts before the first: the file lists both,
\* in order, and a grading is on file as well.
C16_Witness ==
    /\ last.op = "fav"
    /\ Cardinality(favs) = 2
    /\ favs_file # NoFile
    /\ Len(favs_file[1].data) = 2
    /\ selected_id = favs_file[1].data[1]
    /\ less(favs_file[1].data[1], favs_file[1].data[2])
    /\ stats_file # NoFile
    /\ TotalGrades = 1

\* --------------------------------------------------------------- C17
\* browse_next applied n times, starting at sel.
RECURSIVE NextTimes(_, _)
NextTimes(sel, n) == IF n = 0 THEN sel ELSE NextTimes(browse_next_id(sel), n - 1)

\* C17: out of session, with the selected id at place i of the L filtered ids, Next
\* selects place (i+1) mod L and Prev place (i-1) mod L; Prev after Next and Next after
\* Prev give the id back, L times Next gives it back, and the selection stays an id of
\* the list.
C17_BrowseCyclic ==
    [][ LET L == Len(filtered_ids)
            i == IndexOf(filtered_ids, selected_id)
        IN  /\ (Handled("next") /\ ~(in_session /\ queue # <<>>)) =>
                   /\ selected_id' = filtered_ids[(i % L) + 1]
                   /\ browse_prev_id(selected_id') = selected_id
                   /\ NextTimes(selected_id, L) = selected_id
                   /\ selected_id' \in Range(filtered_ids)
            /\ (Handled("prev") /\ ~in_session) =>
                   /\ selected_id' = filtered_ids[((i - 2) % L) + 1]
                   /\ browse_next_id(selected_id') = selected_id
                   /\ selected_id' \in Range(filtered_ids) ]_vars

\* --------------------------------------------------------------- C18
\* C18: no two phrases of the loaded list, of one deck or of two, carry the same id.
C18_UniqueIds ==
    \A i, j \in 1..Len(phrases) : i # j => phrases[i].id # phrases[j].id

\* --------------------------------------------------------------- C19
\* s without its leading and trailing blanks, taken as the stretch from its first to its
\* last character that is not a blank.
Trimmed(s) ==
    LET inked == {i \in 1..Len(s) : s[i] # " "}
    IN  IF inked = {} THEN <<>>
        ELSE SubSeq(s, CHOOSE i \in inked : \A j \in inked : i <= j,
                       CHOOSE i \in inked : \A j \in inked : i >= j)

\* n is a piece of h: h is some text, then n, then some text.
IsSubstring(n, h) ==
    \E a \in 0..Len(h) : \E b \in a..Len(h) : SubSeq(h, a + 1, b) = n

\* The predicate of the claim.
Wanted(P) ==
    /\ ~fav_only \/ P.id \in favs
    /\ \/ Trimmed(q) = <<>>
       \/ IsSubstring(Lower(Trimmed(q)), Lower(P.koine))
       \/ IsSubstring(Lower(Trimmed(q)), Lower(P.english))

\* C19: the filtered list is the list of the loaded phrases that satisfy the predicate
\* (favourites-only off or id starred, and trimmed search text empty or, lowercased, a
\* piece of the lowercased koine or english text), each once, in their loaded order.
C19_FilterExact ==
    LET keep == {i \in 1..Len(phrases) : Wanted(phrases[i])}
    IN  /\ Len(filtered) = Cardinality(keep)
        /\ \E f \in [1..Len(filtered) -> keep] :
               /\ \A k \in 1..Len(filtered) : filtered[k] = phrases[f[k]]
               /\ \A k, m \in 1..Len(filtered) : k < m => f[k] < f[m]

\* Favourites only, a padded upper-case search text, three phrases loaded: one is starred
\* and found, one starred and not found, one found and not starred.
C19_Witness ==
    /\ pc = "ready"
    /\ fav_only
    /\ q = <<"W", " ">>
    /\ Len(phrases) = 3
    /\ Cardinality(favs) = 2
    /\ Len(filtered) = 1
    /\ filtered[1] = phrases[1]
    /\ phrases[2].id \notin favs
    /\ Contains(<<"w">>, Lower(phrases[2].english))

\* --------------------------------------------------------------- C20
\* C20 as stated: "Restart full session" starts over the ids of the most recently
\* started session; so the new session has as many cards as that one had (session_total,
\* which only a start and "Reset session" set, holds that number while it is not 0).
C20_RestartLastStarted ==
    [][ (Handled("restart") /\ session_total > 0) =>
           /\ Len(queue') = session_total
           /\ session_total' = session_total ]_vars

\* C20, amended: "Restart full session" starts over the filtered ids as they are when
\* the button is pressed, whatever ids the session before was started with.
C20_RestartFiltered ==
    [][ Handled("restart") =>
           /\ IsPermutation(queue', filtered_ids)
           /\ session_total' = Len(filtered_ids)
           /\ in_session'
           /\ selected_id' = queue'[1] ]_vars

\* A restart pressed on the summary of a one-card session (a "Study missed only" run)
\* with three cards passing the filter: the new session holds the three.
C20_Witness ==
    /\ last.op = "restart"
    /\ last.k = 1
    /\ in_session
    /\ Len(queue) = 3
    /\ session_total = 3

\* --------------------------------------------------------------- C21
\* C21: whenever the page waits for the user, the session is running if and only if the
\* queue is not empty.
C21_ActiveIffQueue == pc = "ready" => (in_session <=> queue # <<>>)

\* The page waiting with a running session down to its last card after two gradings, a
\* mastered card still selected because of the search text.
C21_Witness ==
    /\ pc = "ready"
    /\ in_session
    /\ Len(queue) = 1
    /\ session_total = 3
    /\ TotalGrades = 2
    /\ selected_id # queue[1]

\* --------------------------------------------------------------- C22
\* C22: in a running session the queue holds at most session_total ids, so that the
\* progress (session_total - len(queue)) / session_total lies between 0 and 1; the
\* queue holding only ids the session was started with, each once, it cannot be longer.
C22_QueueWithinStart == in_session => Len(queue) <= session_total

C24_MissedOfSummary ==
    [][ (Handled("study_missed") /\ in_session') =>
           /\ session_total' = finished_summary[1].incorrect
           /\ Len(queue') = finished_summary[1].incorrect ]_vars

====
